---------------------------- MODULE Spec2Model ----------------------------
(***************************************************************************)
(* A model of libcosmo (class Cosmo and its Romberg integrator) and of the *)
(* cosmic front end.                                                       *)
(*                                                                         *)
(* Numbers.  A double is modelled as a value  (n + u*eps)/d * base :       *)
(*   n, u, d  integers, d > 0, eps the machine epsilon of double (kept as  *)
(*            a first-order symbol, so that 0.7 and 0.7 + eps differ and   *)
(*            comparisons against numeric_limits<double>::epsilon() are    *)
(*            exact);                                                      *)
(*   base     <<>> for a plain number, otherwise the term of a quantity    *)
(*            that has no closed form here: a physical constant, a call of *)
(*            sqrt/sinh/sin/asinh/asin, or the value Cosmo::romberg        *)
(*            returns for one integrand, one parameter set and one         *)
(*            interval.  Two values are equal when they are the result of  *)
(*            the same computation on the same inputs.                     *)
(* Arithmetic folds on plain numbers and on rational multiples of one      *)
(* term, and builds a new term otherwise.                                  *)
(***************************************************************************)
EXTENDS Integers, Sequences, FiniteSets, TLC

\* ------------------------------------------------------------------------
\* State
\* ------------------------------------------------------------------------
VARIABLES
    cosmo,      \* the Cosmo object followed by the model
    lastOp,     \* the last operation on it and the redshift it found
    rpc,        \* romberg: "idle", "row" (at the head of the for loop), "done"
    rin,        \* romberg: the arguments func, a, b of the call in progress
    R,          \* romberg: the table vector<double> R(N*N)
    written,    \* romberg: the indices of R assigned so far in this call
    accessed,   \* romberg: the indices of R read or assigned in this call
    ri,         \* romberg: the loop variable i
    rh,         \* romberg: the panel size h, as <<numerator, denominator>>
    rnp,        \* romberg: the number of panels np
    rret,       \* romberg: the value returned, the cell and the row it is from
    mpc,        \* cosmic: where main is
    fz,         \* cosmic: fflags["z"]
    batch,      \* cosmic: whether sflags["batch"] names a file
    src,        \* cosmic: the mode and the text the last redshift came from
    out,        \* cosmic: what the last step printed
    line,       \* cosmic: the line of the batch file read last
    status,     \* cosmic: the exit status, once main has returned
    bflags,     \* cosmic: the boolean flags help, quiet, prompt, html, version
    fh, fm, fl, \* cosmic: fflags["h"], fflags["m"], fflags["l"]
    outfile,    \* cosmic: whether outfile= replaced the default name
    badArgs,    \* processArgs: the number of arguments reported as bad
    argn,       \* processArgs: the number of arguments processed
    last,       \* processArgs: the argument processed last
    given,      \* processArgs: the keys of the arguments processed
    made,       \* cosmic: the arguments of new Cosmo(h, m, l), once made
    epc,        \* romberg, by evaluation: "idle", "row", "sum", "done"
    ein,        \* romberg, by evaluation: the arguments a, b
    ei,         \* romberg, by evaluation: the loop variable i
    ek,         \* romberg, by evaluation: the loop variable k
    enp,        \* romberg, by evaluation: the number of panels np
    evals       \* romberg, by evaluation: the points f was called at, in
                \* order, <<k, np>> standing for a + k * (b - a) / np

cosmoVars == <<cosmo, lastOp>>
rombergVars == <<rpc, rin, R, written, accessed, ri, rh, rnp, rret>>
cosmicVars == <<mpc, fz, batch, src, out, line, status>>
argsVars == <<bflags, fh, fm, fl, outfile, badArgs, argn, last, given, made>>
evalVars == <<epc, ein, ei, ek, enp, evals>>
vars == <<cosmoVars, rombergVars, cosmicVars, argsVars, evalVars>>

\* ------------------------------------------------------------------------
\* Bounds of the model
\* ------------------------------------------------------------------------
\* largest redshift handed to setRedshift in the object-level specification
MaxZ == 2
\* number of leading refinement rows whose integrand values are chosen freely
MaxFree == 2
\* longest input token of the front end
MaxLen == 2
\* number of refinement rows followed point by point
MaxRows == 4
\* largest number of command-line arguments
MaxArgs == 2
\* largest offset, in machine epsilons, of a density parameter from its decimal
MaxEps == 2

\* ------------------------------------------------------------------------
\* Numbers
\* ------------------------------------------------------------------------
Abs(x) == IF x < 0 THEN -x ELSE x

RECURSIVE GCD(_, _)
GCD(a, b) == IF b = 0 THEN a ELSE GCD(b, a % b)

\* the value (n + u*eps)/d * base in lowest terms, with d > 0; a value whose
\* coefficient is zero is the plain number 0
V(n, u, d, base) ==
    LET s == IF d < 0 THEN -1 ELSE 1
        g == GCD(GCD(Abs(n), Abs(u)), Abs(d))
    IN  IF n = 0 /\ u = 0
        THEN [n |-> 0, u |-> 0, d |-> 1, base |-> <<>>]
        ELSE [n |-> (s * n) \div g, u |-> (s * u) \div g, d |-> Abs(d) \div g,
              base |-> base]

Dec(n, d) == V(n, 0, d, <<>>)
Num(k) == V(k, 0, 1, <<>>)
Zero == Num(0)
One == Num(1)
\* a named quantity computed from args by a library call or an integral
Fn(name, args) == V(1, 0, 1, <<name, args>>)

IsNumber(x) == x.base = <<>>
\* the sign of the coefficient; eps is positive and below every 1/d used
Sign(x) == IF x.n # 0 THEN (IF x.n > 0 THEN 1 ELSE -1)
           ELSE IF x.u # 0 THEN (IF x.u > 0 THEN 1 ELSE -1) ELSE 0
Neg(x) == V(-x.n, -x.u, x.d, x.base)
fabs(x) == IF Sign(x) < 0 THEN Neg(x) ELSE x

Add(x, y) ==
    IF Sign(x) = 0 THEN y
    ELSE IF Sign(y) = 0 THEN x
    ELSE IF x.base = y.base
    THEN LET g == GCD(x.d, y.d)
             p == y.d \div g
             q == x.d \div g
         IN  V(x.n * p + y.n * q, x.u * p + y.u * q, x.d * p, x.base)
    ELSE Fn("+", <<x, y>>)
Sub(x, y) == Add(x, Neg(y))
\* x < y, x <= y, x > y for plain numbers
Less(x, y) == Sign(Sub(x, y)) < 0
LessEq(x, y) == Sign(Sub(x, y)) <= 0
Greater(x, y) == Sign(Sub(x, y)) > 0

\* the product; the second-order term in eps is below the resolution
Mul(x, y) ==
    V(x.n * y.n, x.n * y.u + x.u * y.n, x.d * y.d,
      IF x.base = <<>> THEN y.base
      ELSE IF y.base = <<>> THEN x.base
      ELSE <<"*", <<x.base, y.base>>>>)
\* the quotient; a division by zero or by a number with an eps part is a term
Div(x, y) ==
    IF y.n = 0 \/ y.u # 0
    THEN Fn("/", <<x, y>>)
    ELSE V(x.n * y.d, x.u * y.d, x.d * y.n,
           IF y.base = <<>> THEN x.base
           ELSE <<"/", <<x.base, y.base>>>>)

\* ------------------------------------------------------------------------
\* libcosmo: constants and helpers
\* ------------------------------------------------------------------------
\* numeric_limits<double>::epsilon()
Epsilon == V(0, 1, 1, <<>>)
\* the physical constants, each a positive quantity of its own
c == Fn("c", <<>>)
G == Fn("G", <<>>)
PI == Fn("PI", <<>>)
kmPerMpc == Fn("kmPerMpc", <<>>)

\* a*a and a*a*a: folded on plain numbers, a term otherwise
SQR(a) == IF IsNumber(a) THEN Mul(a, a) ELSE Fn("SQR", <<a>>)
CUBE(a) == IF IsNumber(a) THEN Mul(Mul(a, a), a) ELSE Fn("CUBE", <<a>>)
sqrt(a) == Fn("sqrt", <<a>>)
sinh(a) == Fn("sinh", <<a>>)
sin(a) == Fn("sin", <<a>>)
asinh(a) == Fn("asinh", <<a>>)
asin(a) == Fn("asin", <<a>>)

\* the value romberg(func, a, b) returns on an object whose E(z) reads
\* OmegaM_, Omegak_ and OmegaL_ (the algorithm itself is the machine below)
rombergOf(func, o, a, b) ==
    Fn("romberg", <<func, o.OmegaM, o.Omegak, o.OmegaL, a, b>>)

\* ------------------------------------------------------------------------
\* Cosmo::romberg, as the algorithm it is.
\*
\* Table entries and integrand values are doubles on a grid of 1e-9 (halving
\* and the division by m - 1 round toward zero), or NaN.  An integrand is
\* given by f(a), f(b) and, for each refinement row i, the value it takes at
\* the midpoints a + k*h (k odd) that row i introduces; any such choice is
\* the restriction of some function to the points romberg evaluates.
\* ------------------------------------------------------------------------
\* const int N = 25: maximum iterations
N == 25
\* double prec = 1e-8, in grid steps
prec == 10
\* the width of int, the type of m
IntWidth == 32

RV(v) == [nan |-> FALSE, v |-> v]
NaN == [nan |-> TRUE, v |-> 0]
rAdd(x, y) == IF x.nan \/ y.nan THEN NaN ELSE RV(x.v + y.v)
rSub(x, y) == IF x.nan \/ y.nan THEN NaN ELSE RV(x.v - y.v)
\* x * k / d for integers k and d # 0, rounded toward zero
rScale(x, k, d) ==
    IF x.nan THEN NaN
    ELSE LET p == x.v * k
             q == Abs(p) \div Abs(d)
         IN  RV(IF (p < 0) = (d < 0) THEN q ELSE -q)
\* fabs(x) < prec; false for NaN
rWithin(x) == ~x.nan /\ Abs(x.v) < prec

RECURSIVE Pow(_, _)
Pow(b, e) == IF e = 0 THEN 1 ELSE b * Pow(b, e - 1)

\* the value of f at the midpoints introduced by row i
midValue(f, i) ==
    IF i <= MaxFree THEN f.head[i]
    ELSE IF f.tail = "const" \/ (i - MaxFree) % 2 = 0 THEN f.head[MaxFree]
    ELSE rSub(RV(0), f.head[MaxFree])

\* lines 100-102 times h: sumT adds f at the np/2 new midpoints and
\* h = (b - a)/np, so h * sumT = (b - a) * f(midpoint) / 2
hTimesSumTUnhalved(in, i) == rScale(midValue(in.f, i), in.b - in.a, 1)
hTimesSumT(in, i) == rScale(midValue(in.f, i), in.b - in.a, 2)

\* line 110, the term (R[N*i+j-1] - R[N*(i-1)+j-1]) / (m-1) after m *= 4 has
\* run j times.  From j = 16 on m = 4^j no longer fits an int: the signed
\* overflow is undefined, and the build either wraps (m = 0, m - 1 = -1) or
\* keeps the wide value (the quotient is then below the grid).
correction(diff, j, overflow) ==
    IF 2 * j < IntWidth - 1 THEN rScale(diff, 1, Pow(4, j) - 1)
    ELSE IF overflow = "wrap" THEN rScale(diff, 1, -1)
    ELSE rScale(diff, 0, 1)

\* lines 107-111: the entries R(i,2) ... R(i,i) of row i, from column j on
RECURSIVE extrapolate(_, _, _, _)
extrapolate(T, i, j, overflow) ==
    IF j < i
    THEN extrapolate(
             [T EXCEPT ![N * i + j] =
                 rAdd(T[N * i + j - 1],
                      correction(rSub(T[N * i + j - 1], T[N * (i - 1) + j - 1]),
                                 j, overflow))],
             i, j + 1, overflow)
    ELSE T

\* line 112, with j the value the loop of line 107 leaves (j = i for i >= 1)
dROf(T, i, j) ==
    IF j > 1 THEN rSub(T[N * i + j - 1], T[N * (i - 1) + (j - 2)]) ELSE T[0]

\* line 116: return R.back()
backIndex == N * N - 1

\* lines 105-110: the elements of R that row i reads and assigns
rowIndices(i) ==
    {N * i, N * (i - 1)} \cup
    UNION {{N * i + j, N * i + j - 1, N * (i - 1) + j - 1} : j \in 1 .. i - 1}
\* line 112: the elements dR reads, the difference only when j > 1
dRIndicesUnguarded(i, j) == {N * i + j - 1, N * (i - 1) + (j - 2)}
dRIndices(i, j) ==
    IF j > 1 THEN {N * i + j - 1, N * (i - 1) + (j - 2)} ELSE {0}

Values == {RV(0), RV(1000), NaN}
Integrands ==
    [fa : Values, fb : Values, head : [1 .. MaxFree -> Values],
     tail : {"const", "alt"}]
\* the linear integrands, given by their values at a and b: the mean of a
\* linear f over the midpoints of any row is (f(a) + f(b)) / 2.  Unit is 1.0
\* on the grid, so f(a) = 0, f(b) = Unit on [0, 1] is f(x) = x.
Unit == 1000000000
LinearIntegrands ==
    {[fa |-> RV(p), fb |-> RV(q),
      head |-> [k \in 1 .. MaxFree |-> RV((p + q) \div 2)], tail |-> "const"] :
     p \in {-1000, 0, 1000}, q \in {-1000, 0, 1000, Unit}}
NoCall == [f |-> [fa |-> RV(0), fb |-> RV(0), head |-> [k \in 1 .. MaxFree |-> RV(0)],
                  tail |-> "const"],
           a |-> 0, b |-> 0, overflow |-> "wrap"]
NoReturn == [value |-> RV(0), cell |-> 0, row |-> 0, how |-> "none"]

RombergIdle ==
    /\ rpc = "idle"
    /\ rin = NoCall
    /\ R = [k \in 0 .. N * N - 1 |-> RV(0)]
    /\ written = {}
    /\ accessed = {}
    /\ ri = 0
    /\ rh = <<0, 1>>
    /\ rnp = 1
    /\ rret = NoReturn

\* lines 84-94: the call, up to the first test of the for loop
RombergCall ==
    /\ rpc = "idle"
    /\ \E f \in Integrands \cup LinearIntegrands, a \in 0 .. 1, b \in 1 .. 2,
          overflow \in {"wrap", "wide"} :
          /\ a <= b
          /\ rin' = [f |-> f, a |-> a, b |-> b, overflow |-> overflow]
          /\ R' = [k \in 0 .. N * N - 1 |->
                      IF k = 0 THEN rScale(rAdd(f.fa, f.fb), b - a, 2)
                      ELSE RV(0)]
          /\ rh' = <<b - a, 1>>
    /\ written' = {0}
    /\ accessed' = {0}
    /\ rnp' = 1
    /\ ri' = 1
    /\ rpc' = "row"
    /\ rret' = NoReturn

\* ++i
nextRowStuck(i) == i
nextRow(i) == i + 1

\* lines 95-115: one iteration of the for loop
RombergRow ==
    /\ rpc = "row"
    /\ ri < N
    /\ LET T0 == [R EXCEPT ![N * ri] =
                     rAdd(rScale(R[N * (ri - 1)], 1, 2), hTimesSumT(rin, ri))]
           T == extrapolate(T0, ri, 1, rin.overflow)
           j == ri
           dR == dROf(T, ri, j)
       IN  /\ R' = T
           /\ written' = written \cup {N * ri + k : k \in 0 .. ri - 1}
           /\ accessed' = accessed \cup rowIndices(ri) \cup dRIndices(ri, j)
                             \cup (IF rWithin(dR) THEN {N * ri + j - 1} ELSE {})
           /\ rh' = <<rh[1], rh[2] * 2>>
           /\ rnp' = rnp * 2
           /\ IF rWithin(dR)
              THEN /\ rpc' = "done"
                   /\ rret' = [value |-> T[N * ri + j - 1],
                               cell |-> N * ri + j - 1,
                               row |-> ri, how |-> "converged"]
                   /\ ri' = ri
              ELSE /\ rpc' = "row"
                   /\ rret' = rret
                   /\ ri' = nextRow(ri)
    /\ UNCHANGED rin

\* line 116: the loop ran out of rows
RombergExhausted ==
    /\ rpc = "row"
    /\ ri = N
    /\ rpc' = "done"
    /\ rret' = [value |-> R[backIndex], cell |-> backIndex,
                row |-> N - 1, how |-> "exhausted"]
    /\ accessed' = accessed \cup {backIndex}
    /\ UNCHANGED <<rin, R, written, ri, rh, rnp>>

\* the caller takes the value; the table is destroyed
RombergReturn ==
    /\ rpc = "done"
    /\ rpc' = "idle"
    /\ rin' = NoCall
    /\ R' = [k \in 0 .. N * N - 1 |-> RV(0)]
    /\ written' = {}
    /\ accessed' = {}
    /\ ri' = 0
    /\ rh' = <<0, 1>>
    /\ rnp' = 1
    /\ rret' = NoReturn

\* ------------------------------------------------------------------------
\* Cosmo::romberg, by evaluation of the integrand: the calls of func that
\* lines 91 and 101-102 make, one at a time, for the first MaxRows rows
\* ------------------------------------------------------------------------
EvalIdle ==
    /\ epc = "idle"
    /\ ein = [a |-> 0, b |-> 0]
    /\ ei = 0
    /\ ek = 0
    /\ enp = 1
    /\ evals = <<>>

\* k += 2
nextKEvery(k) == k + 1
nextK(k) == k + 2

\* lines 84-94: func at a and at b.  The callers integrate from 0 to
\* 1 - epsilon and from 0 to z_ with z_ # 0, so a # b
EvalCall ==
    /\ epc = "idle"
    /\ \E a \in 0 .. 1, b \in -1 .. 2 :
          /\ a # b
          /\ ein' = [a |-> a, b |-> b]
    /\ evals' = <<<<0, 1>>, <<1, 1>>>>
    /\ enp' = 1
    /\ ei' = 1
    /\ ek' = 0
    /\ epc' = "row"

\* lines 95-101: the head of a row, h /= 2 and np *= 2, k = 1
EvalRowStart ==
    /\ epc = "row"
    /\ ei < N /\ ei <= MaxRows
    /\ enp' = enp * 2
    /\ ek' = 1
    /\ epc' = "sum"
    /\ UNCHANGED <<ein, ei, evals>>

\* lines 101-102: sumT += func(a + k*h)
EvalPoint ==
    /\ epc = "sum"
    /\ ek <= enp - 1
    /\ evals' = Append(evals, <<ek, enp>>)
    /\ ek' = nextK(ek)
    /\ UNCHANGED <<epc, ein, ei, enp>>

\* lines 104-115: the row is complete; the values of func decide whether
\* romberg returns here or goes on to the next row
EvalRowEnd ==
    /\ epc = "sum"
    /\ ek > enp - 1
    /\ \E converged \in BOOLEAN :
          IF converged THEN epc' = "done" /\ ei' = ei
          ELSE epc' = "row" /\ ei' = ei + 1
    /\ UNCHANGED <<ein, ek, enp, evals>>

\* line 116, or the end of the rows that are followed
EvalStop ==
    /\ epc = "row"
    /\ ei = N \/ ei > MaxRows
    /\ epc' = "done"
    /\ UNCHANGED <<ein, ei, ek, enp, evals>>

EvalReturn ==
    /\ epc = "done"
    /\ epc' = "idle"
    /\ ein' = [a |-> 0, b |-> 0]
    /\ ei' = 0
    /\ ek' = 0
    /\ enp' = 1
    /\ evals' = <<>>

\* ------------------------------------------------------------------------
\* class Cosmo: an object is the record of its data members
\* ------------------------------------------------------------------------
curvatureStrict(om, ol) ==
    LET d == Sub(Sub(One, om), ol)
    IN  IF Less(fabs(d), Epsilon) THEN Zero ELSE d
\* Omegak_ = 1.0 - omegaMatter - omegaLambda, set to 0 when within epsilon
curvature(om, ol) ==
    LET d == Sub(Sub(One, om), ol)
    IN  IF LessEq(fabs(d), Epsilon) THEN Zero ELSE d

init(hNought, omegaMatter, omegaLambda) ==
    LET ok == curvature(omegaMatter, omegaLambda)
        p == [OmegaM |-> omegaMatter, Omegak |-> ok, OmegaL |-> omegaLambda]
    IN  [H0 |-> hNought,
         OmegaM |-> omegaMatter,
         OmegaL |-> omegaLambda,
         Omegak |-> ok,
         q0 |-> Sub(Mul(Dec(1, 2), omegaMatter), omegaLambda),
         dH |-> Div(c, hNought),
         age |-> Mul(Div(rombergOf("ageIntegrand", p, Zero, Sub(One, Epsilon)),
                         hNought), kmPerMpc),
         dC |-> Zero, dM |-> Zero, dA |-> Zero, dL |-> Zero, VC |-> Zero,
         tL |-> Zero, z |-> Zero, scale |-> Zero, rhoCrit |-> Zero]

\* the critical density of lines 158-159
criticalDensity(o) ==
    Mul(Div(Mul(Div(Div(Num(3), Num(8)), PI), SQR(Div(o.H0, kmPerMpc))), G),
        Add(o.OmegaL, Mul(CUBE(Add(One, o.z)), o.OmegaM)))

\* the flat branch of lines 186-190
flat(dC_) ==
    [dM |-> dC_,
     VC |-> Div(Div(Mul(Mul(Num(4), PI), CUBE(dC_)), Num(3)), Fn("1e9", <<>>))]
curvedNeverFlat(o, dC_) ==
    IF Sign(o.Omegak) = 0
    THEN [dM |-> Mul(Div(o.dH, sqrt(o.Omegak)),
                     sinh(Div(Mul(sqrt(o.Omegak), dC_), o.dH))),
          VC |-> flat(dC_).VC]
    ELSE flat(dC_)
\* comoving transverse distance and comoving volume, by the sign of Omegak_
curved(o, dC_) ==
    IF Greater(o.Omegak, Zero)
    THEN LET dM_ == Mul(Div(o.dH, sqrt(o.Omegak)),
                        sinh(Div(Mul(sqrt(o.Omegak), dC_), o.dH)))
         IN  [dM |-> dM_,
              VC |-> Div(Mul(Div(Mul(Mul(Num(2), PI), CUBE(o.dH)), o.Omegak),
                             Sub(Mul(Div(dM_, o.dH),
                                     sqrt(Add(One, Mul(o.Omegak,
                                                       SQR(Div(dM_, o.dH)))))),
                                 Div(asinh(Div(Mul(sqrt(fabs(o.Omegak)), dM_),
                                               o.dH)),
                                     sqrt(fabs(o.Omegak))))),
                         Fn("1e9", <<>>))]
    ELSE IF Less(o.Omegak, Zero)
    THEN LET dM_ == Mul(Div(o.dH, sqrt(fabs(o.Omegak))),
                        sin(Div(Mul(sqrt(fabs(o.Omegak)), dC_), o.dH)))
         IN  [dM |-> dM_,
              VC |-> Div(Mul(Div(Mul(Mul(Num(2), PI), CUBE(o.dH)), o.Omegak),
                             Sub(Mul(Div(dM_, o.dH),
                                     sqrt(Add(One, Mul(o.Omegak,
                                                       SQR(Div(dM_, o.dH)))))),
                                 Div(asin(Div(Mul(sqrt(fabs(o.Omegak)), dM_),
                                              o.dH)),
                                     sqrt(fabs(o.Omegak))))),
                         Fn("1e9", <<>>))]
    ELSE flat(dC_)

\* lines 163-164: every distance, the lookback time and the scale are 0
zeroDistancesStale(o) == o
zeroDistances(o) ==
    [o EXCEPT !.dC = Zero, !.dM = Zero, !.VC = Zero, !.dA = Zero,
              !.dL = Zero, !.tL = Zero, !.scale = Zero]

\* lines 191-192: dA_ = dM_ / (1 + z_) and dL_ = dM_ * (1 + z_)
angularAndLuminositySwapped(dM_, z_) ==
    [dA |-> Mul(dM_, Add(One, z_)), dL |-> Div(dM_, Add(One, z_))]
angularAndLuminosity(dM_, z_) ==
    [dA |-> Div(dM_, Add(One, z_)), dL |-> Mul(dM_, Add(One, z_))]

setDistances(o) ==
    LET r == [o EXCEPT !.rhoCrit = criticalDensity(o)]
    IN  IF Sign(o.z) = 0
        THEN zeroDistances(r)
        ELSE LET dC_ == Mul(o.dH, rombergOf("inverseOfE", o, Zero, o.z))
                 cv == curved(o, dC_)
                 al == angularAndLuminosity(cv.dM, o.z)
             IN  [r EXCEPT !.dC = dC_,
                           !.dM = cv.dM,
                           !.VC = cv.VC,
                           !.dA = al.dA,
                           !.dL = al.dL,
                           !.tL = Mul(Div(rombergOf("lookbackIntegrand", o,
                                                    Zero, o.z), o.H0),
                                      kmPerMpc),
                           !.scale = Mul(Div(al.dA, Num(648)), PI)]

setCosmology(hNought, omegaMatter, omegaLambda) ==
    LET o == init(hNought, omegaMatter, omegaLambda)
    IN  IF Sign(o.z) # 0 THEN setDistances(o) ELSE o

\* a setRedshift that recomputes the age up to the redshift
setRedshiftAgeToZ(o, redshift) ==
    [setDistances([o EXCEPT !.z = redshift]) EXCEPT
        !.age = Mul(Div(rombergOf("ageIntegrand", o, Zero, redshift), o.H0),
                    kmPerMpc)]
setRedshift(o, redshift) == setDistances([o EXCEPT !.z = redshift])

clone(a) == setRedshift(init(a.H0, a.OmegaM, a.OmegaL), a.z)

\* prompt answers accepted by the loops of getCosmologyFromUser (a rejected
\* answer is asked again; an empty line keeps the current value)
getCosmologyFromUser(H0_tmp, OmegaM_tmp, OmegaL_tmp) ==
    init(H0_tmp, OmegaM_tmp, OmegaL_tmp)

\* ------------------------------------------------------------------------
\* Inputs of the object-level specification: the parameters the library
\* documents as valid (H0 > 0, OmegaM >= 0, OmegaL any real), redshifts >= 0
\* ------------------------------------------------------------------------
H0Values == {Num(70)}
OmegaMValues == {Zero, Dec(3, 10), One}
OmegaLValues ==
    {Neg(One), Zero} \cup
    {Add(Dec(7, 10), Mul(Num(e), Epsilon)) : e \in (0 - MaxEps) .. MaxEps}
Redshifts == {Num(k) : k \in 0 .. MaxZ}

Op(name, zBefore) == [name |-> name, zBefore |-> zBefore]

\* ------------------------------------------------------------------------
\* Operations of class Cosmo.  The model follows one object; after a copy
\* or an assignment it follows the object that was written.
\* ------------------------------------------------------------------------
DefaultConstruct ==
    /\ cosmo' = init(Dec(6704, 100), Dec(3183, 10000), Dec(6817, 10000))
    /\ lastOp' = Op("Cosmo", Zero)

Construct ==
    \E h \in H0Values, om \in OmegaMValues, ol \in OmegaLValues :
        /\ cosmo' = init(h, om, ol)
        /\ lastOp' = Op("Cosmo", Zero)

CopyConstruct ==
    /\ cosmo' = clone(cosmo)
    /\ lastOp' = Op("copy", cosmo.z)

Assign ==
    /\ cosmo' = clone(cosmo)
    /\ lastOp' = Op("assign", cosmo.z)

SelfAssign ==
    /\ cosmo' = cosmo
    /\ lastOp' = Op("selfAssign", cosmo.z)

SetCosmology ==
    \E h \in H0Values, om \in OmegaMValues, ol \in OmegaLValues :
        /\ cosmo' = setCosmology(h, om, ol)
        /\ lastOp' = Op("setCosmology", cosmo.z)

SetRedshift ==
    \E redshift \in Redshifts :
        /\ cosmo' = setRedshift(cosmo, redshift)
        /\ lastOp' = Op("setRedshift", cosmo.z)

GetCosmologyFromUser ==
    \E h \in H0Values \cup {cosmo.H0},
       om \in OmegaMValues \cup {cosmo.OmegaM},
       ol \in OmegaLValues \cup {cosmo.OmegaL} :
        /\ Greater(h, Zero)
        /\ ~Less(om, Zero)
        /\ cosmo' = getCosmologyFromUser(h, om, ol)
        /\ lastOp' = Op("getCosmologyFromUser", cosmo.z)

\* ------------------------------------------------------------------------
\* Text: isNumeric and atof.  A text is a sequence of characters.
\* ------------------------------------------------------------------------
Chars == {"-", ".", "0", "1", "x"}
Tokens == UNION {[1 .. n -> Chars] : n \in 0 .. MaxLen}
Digits == {"0", "1", "2", "3", "4", "5", "6", "7", "8", "9"}
digitValue(ch) ==
    CASE ch = "0" -> 0 [] ch = "1" -> 1 [] ch = "2" -> 2 [] ch = "3" -> 3
      [] ch = "4" -> 4 [] ch = "5" -> 5 [] ch = "6" -> 6 [] ch = "7" -> 7
      [] ch = "8" -> 8 [] ch = "9" -> 9

\* string::find_first_not_of(set) and string::find(ch, from), converted to
\* int: the 0-based position, or -1 (npos) when there is none
RECURSIVE findFirstNotOf(_, _, _)
findFirstNotOf(text, set, from) ==
    IF from >= Len(text) THEN -1
    ELSE IF text[from + 1] \notin set THEN from
    ELSE findFirstNotOf(text, set, from + 1)
RECURSIVE find(_, _, _)
find(text, ch, from) ==
    IF from >= Len(text) THEN -1
    ELSE IF text[from + 1] = ch THEN from
    ELSE find(text, ch, from + 1)

isNumeric(text) ==
    LET n == Len(text)
        i1 == findFirstNotOf(text, Digits \cup {"-", "."}, 0)
        i2 == find(text, "-", 1)
        i3 == find(text, ".", 0)
        i4 == find(text, ".", i3 + 1)
    IN  IF i1 >= 0 /\ i1 < n THEN 0
        ELSE IF i2 > 0 /\ i2 < n THEN 0
        ELSE IF (i3 >= 0 /\ i3 < n) /\ (i4 >= 0 /\ i4 < n) THEN 0
        ELSE 1

\* the number of digits of text from position k (1-based) on
RECURSIVE digitRun(_, _)
digitRun(text, k) ==
    IF k <= Len(text) /\ text[k] \in Digits THEN 1 + digitRun(text, k + 1)
    ELSE 0
\* the value of the n digits of text from position k on
RECURSIVE digitsValue(_, _, _)
digitsValue(text, k, n) ==
    IF n = 0 THEN 0
    ELSE digitsValue(text, k, n - 1) * 10 + digitValue(text[k + n - 1])

\* atof: the value of the longest prefix that is a decimal number (sign,
\* digits, point, digits), 0 when there is none
atof(text) ==
    LET neg == Len(text) >= 1 /\ text[1] = "-"
        s == IF neg THEN 2 ELSE 1
        ni == digitRun(text, s)
        dot == s + ni <= Len(text) /\ text[s + ni] = "."
        nf == IF dot THEN digitRun(text, s + ni + 1) ELSE 0
        mag == Dec(digitsValue(text, s, ni) * Pow(10, nf)
                     + digitsValue(text, s + ni + 1, nf), Pow(10, nf))
    IN  IF ni + nf = 0 THEN Zero ELSE IF neg THEN Neg(mag) ELSE mag

\* ------------------------------------------------------------------------
\* cosmic: main
\* ------------------------------------------------------------------------
NoSource == [mode |-> "none", text |-> <<>>]

CosmicIdle ==
    /\ mpc = "start"
    /\ fz = Neg(One)
    /\ batch = FALSE
    /\ src = NoSource
    /\ out = "nothing"
    /\ line = <<>>
    /\ status = -1

\* lines 164-198: the flags, processArgs for z=value and batch=file, the
\* cosmology (with the prompt, when it is on, answered by the given values)
Startup ==
    /\ mpc = "start"
    /\ \E zGiven \in BOOLEAN, value \in Tokens, file \in BOOLEAN,
          prompt \in BOOLEAN :
          /\ IF zGiven /\ Len(value) > 0 /\ isNumeric(value) # 0
             THEN /\ fz' = atof(value)
                  /\ src' = [mode |-> "args", text |-> value]
             ELSE /\ fz' = Neg(One)
                  /\ src' = NoSource
          /\ batch' = file
          /\ cosmo' = IF prompt
                      THEN getCosmologyFromUser(Num(70), Dec(3, 10), Dec(7, 10))
                      ELSE init(Num(71), Dec(27, 100), Dec(73, 100))
    /\ lastOp' = Op("Cosmo", Zero)
    /\ mpc' = "mode"
    /\ UNCHANGED <<out, line, status>>

\* lines 201-208: quick mode
QuickMode ==
    /\ mpc = "mode"
    /\ fz # Neg(One)
    /\ cosmo' = setRedshift(cosmo, fz)
    /\ lastOp' = Op("setRedshift", cosmo.z)
    /\ src' = [mode |-> "quick", text |-> src.text]
    /\ out' = "result"
    /\ mpc' = "exit"
    /\ status' = 0
    /\ UNCHANGED <<fz, batch, line>>

\* lines 209-236: one pass of the prompt loop, cin >> temp having read a
\* token (which is never empty)
PromptLoop ==
    /\ mpc = "mode"
    /\ fz = Neg(One)
    /\ ~batch
    /\ \E temp \in Tokens :
          /\ Len(temp) > 0
          /\ IF isNumeric(temp) = 0
             THEN /\ out' = "not a number"
                  /\ UNCHANGED <<cosmoVars, src>>
             ELSE IF ~Less(atof(temp), Zero)
             THEN /\ cosmo' = setRedshift(cosmo, atof(temp))
                  /\ lastOp' = Op("setRedshift", cosmo.z)
                  /\ src' = [mode |-> "prompt", text |-> temp]
                  /\ out' = "result"
             ELSE /\ out' = "negative"
                  /\ UNCHANGED <<cosmoVars, src>>
    /\ UNCHANGED <<mpc, fz, batch, line, status>>

\* lines 212, 237: cin >> temp fails (end of input)
PromptEnd ==
    /\ mpc = "mode"
    /\ fz = Neg(One)
    /\ ~batch
    /\ mpc' = "exit"
    /\ status' = 0
    /\ UNCHANGED <<cosmoVars, fz, batch, src, out, line>>

\* lines 241-262: the files are opened (or not) and the header is printed
BatchOpen ==
    /\ mpc = "mode"
    /\ fz = Neg(One)
    /\ batch
    /\ \E opened \in BOOLEAN :
          IF opened
          THEN mpc' = "batch" /\ out' = "header" /\ status' = status
          ELSE mpc' = "exit" /\ out' = "cannot open" /\ status' = 1
    /\ UNCHANGED <<cosmoVars, fz, batch, src, line>>

\* lines 263-276: one line of the batch file
BatchLine ==
    /\ mpc = "batch"
    /\ \E p \in Tokens :
          /\ line' = p
          /\ IF Sign(atof(p)) = 0
             THEN /\ mpc' = "exit"
                  /\ status' = 1
                  /\ out' = "not a number"
                  /\ UNCHANGED <<cosmoVars, src>>
             ELSE /\ cosmo' = setRedshift(cosmo, atof(p))
                  /\ lastOp' = Op("setRedshift", cosmo.z)
                  /\ src' = [mode |-> "batch", text |-> p]
                  /\ out' = "row"
                  /\ UNCHANGED <<mpc, status>>
    /\ UNCHANGED <<fz, batch>>

\* lines 263, 277-282: getline fails (end of file)
BatchEnd ==
    /\ mpc = "batch"
    /\ mpc' = "exit"
    /\ status' = 0
    /\ UNCHANGED <<cosmoVars, fz, batch, src, out, line>>

\* ------------------------------------------------------------------------
\* cosmic: the command line
\* ------------------------------------------------------------------------
kHelp == <<"h", "e", "l", "p">>
kQuiet == <<"q", "u", "i", "e", "t">>
kPrompt == <<"p", "r", "o", "m", "p", "t">>
kHtml == <<"h", "t", "m", "l">>
kVersion == <<"v", "e", "r", "s", "i", "o", "n">>
kBatch == <<"b", "a", "t", "c", "h">>
kOutfile == <<"o", "u", "t", "f", "i", "l", "e">>
kH == <<"h">>
kM == <<"m">>
kL == <<"l">>
kZ == <<"z">>
BoolKeys == {kHelp, kQuiet, kPrompt, kHtml, kVersion}
StringKeys == {kBatch, kOutfile}
FloatKeys == {kH, kM, kL, kZ}

\* string::substr(pos, count), string::erase(pos, count) and
\* string::find_first_of(set, from), positions counted from 0
substr(text, pos, count) ==
    SubSeq(text, pos + 1, IF pos + count > Len(text) THEN Len(text)
                          ELSE pos + count)
erase(text, pos, count) ==
    SubSeq(text, 1, pos) \o SubSeq(text, pos + count + 1, Len(text))
RECURSIVE findFirstOf(_, _, _)
findFirstOf(text, set, from) ==
    IF from >= Len(text) THEN -1
    ELSE IF text[from + 1] \in set THEN from
    ELSE findFirstOf(text, set, from + 1)

\* while ("-" == key.substr(0, 1)) key.erase(0, 1)
RECURSIVE stripDashes(_)
stripDashes(key) ==
    IF substr(key, 0, 1) = <<"-">> THEN stripDashes(erase(key, 0, 1)) ELSE key

Split(key, value) == [key |-> key, value |-> value, how |-> "returns"]
\* substr at npos throws out_of_range; value[-1] on an emptied value is
\* undefined
SplitFails(how) == [key |-> <<>>, value |-> <<>>, how |-> how]
Quotes == {"\"", "'"}

\* lines 100-110: an argument without "=" that starts with "-"
dashedKeepsNo(key) == Split(stripDashes(key), <<"y", "e", "s">>)
dashed(key) ==
    LET bare == stripDashes(key)
    IN  IF substr(bare, 0, 2) = <<"n", "o">>
        THEN Split(erase(bare, 0, 2), <<"n", "o">>)
        ELSE Split(bare, <<"y", "e", "s">>)

splitArg(text) ==
    LET n == Len(text)
        start == findFirstNotOf(text, {"="}, 0)
        found == IF start < 0 THEN -1 ELSE findFirstOf(text, {"="}, start)
        stop == IF found < 0 \/ found > n THEN n ELSE found
    IN  IF start < 0 THEN SplitFails("throws")
        ELSE LET key == substr(text, start, stop - start)
             IN  IF stop # n
                 THEN LET from == findFirstNotOf(text, {"="}, stop + 1)
                          whole == substr(text, from, n - from)
                          front == IF whole[1] \in Quotes
                                   THEN erase(whole, 0, 1) ELSE whole
                          m == Len(front) - 1
                      IN  IF from < 0 THEN SplitFails("throws")
                          ELSE IF m < 0 THEN SplitFails("undefined")
                          ELSE IF front[m + 1] \in Quotes
                          THEN Split(key, erase(front, m, 1))
                          ELSE Split(key, front)
                 ELSE IF substr(key, 0, 1) # <<"-">>
                 THEN Split(key, <<>>)
                 ELSE dashed(key)

\* the flag tables of main, and the body of the loop of processArgs on one
\* argument whose key and value splitArg has returned
Tables ==
    [bflags |-> bflags, batch |-> batch, outfile |-> outfile,
     fh |-> fh, fm |-> fm, fl |-> fl, fz |-> fz, badArgs |-> badArgs]
Bad(t) == [t EXCEPT !.badArgs = t.badArgs + 1]
processArg(t, key, value) ==
    IF Len(value) = 0 THEN Bad(t)
    ELSE IF key \in BoolKeys
    THEN IF value[1] \in {"y", "Y"} THEN [t EXCEPT !.bflags[key] = TRUE]
         ELSE IF value[1] \in {"n", "N"} THEN [t EXCEPT !.bflags[key] = FALSE]
         ELSE Bad(t)
    ELSE IF key = kBatch THEN [t EXCEPT !.batch = TRUE]
    ELSE IF key = kOutfile THEN [t EXCEPT !.outfile = TRUE]
    ELSE IF key \in FloatKeys
    THEN IF isNumeric(value) = 0 THEN Bad(t)
         ELSE IF key = kH THEN [t EXCEPT !.fh = atof(value)]
         ELSE IF key = kM THEN [t EXCEPT !.fm = atof(value)]
         ELSE IF key = kL THEN [t EXCEPT !.fl = atof(value)]
         ELSE [t EXCEPT !.fz = atof(value)]
    ELSE Bad(t)

\* the arguments tried: every form of every boolean option, values of h, m
\* and l of either sign, and one argument for each other path of processArgs
ParamTexts == {<<"-", "1">>, <<"0">>, <<"1">>, <<"x">>}
BoolArgs ==
    UNION {{<<"-">> \o b, <<"-", "n", "o">> \o b,
            b \o <<"=", "y", "e", "s">>, b \o <<"=", "n", "o">>} :
           b \in BoolKeys}
ParamArgs == {k \o <<"=">> \o v : k \in {kH, kM, kL}, v \in ParamTexts}
OtherArgs ==
    {kZ \o <<"=", "1">>, kZ \o <<"=", "'", "1", "'">>, kBatch \o <<"=", "f">>,
     kOutfile \o <<"=", "f">>, kH \o <<"=">>, <<"x">>, <<"x", "=", "1">>,
     kHelp \o <<"=", "x">>, <<"-", "-">> \o kQuiet}
ArgTexts == BoolArgs \cup ParamArgs \cup OtherArgs

ArgsIdle ==
    /\ bflags = [b \in BoolKeys |-> b = kPrompt]
    /\ fh = Num(71)
    /\ fm = Dec(27, 100)
    /\ fl = Dec(73, 100)
    /\ outfile = FALSE
    /\ badArgs = 0
    /\ argn = 0
    /\ last = <<>>
    /\ given = {}
    /\ made = <<>>

\* lines 118-157: one iteration of the loop of processArgs
ProcessArg ==
    /\ mpc = "start"
    /\ argn < MaxArgs
    /\ \E text \in ArgTexts :
          LET kv == splitArg(text)
              t == processArg(Tables, kv.key, kv.value)
          IN  /\ last' = text
              /\ argn' = argn + 1
              /\ IF kv.how = "returns"
                 THEN /\ bflags' = t.bflags
                      /\ batch' = t.batch
                      /\ outfile' = t.outfile
                      /\ fh' = t.fh
                      /\ fm' = t.fm
                      /\ fl' = t.fl
                      /\ fz' = t.fz
                      /\ badArgs' = t.badArgs
                      /\ given' = given \cup {kv.key}
                      /\ src' = IF kv.key = kZ /\ t.badArgs = badArgs
                                THEN [mode |-> "args", text |-> kv.value]
                                ELSE src
                      /\ UNCHANGED <<mpc, status>>
                 ELSE /\ mpc' = "exit"
                      /\ status' = 134
                      /\ UNCHANGED <<bflags, batch, outfile, fh, fm, fl, fz,
                                     badArgs, given, src>>
    /\ UNCHANGED <<cosmoVars, out, line, made>>

\* lines 184-196: help and version leave the program, otherwise the
\* cosmology is made from the flags
MakeCosmology ==
    /\ mpc = "start"
    /\ IF bflags[kHelp] \/ bflags[kVersion]
       THEN /\ mpc' = "exit"
            /\ status' = 0
            /\ UNCHANGED <<cosmoVars, made>>
       ELSE /\ made' = <<fh, fm, fl>>
            /\ cosmo' = init(fh, fm, fl)
            /\ lastOp' = Op("Cosmo", Zero)
            /\ mpc' = "made"
            /\ UNCHANGED status
    /\ UNCHANGED <<fz, batch, src, out, line, bflags, fh, fm, fl, outfile, badArgs,
                   argn, last, given>>

\* what promptForParam returns on a line: the default on an empty line, the
\* number on a numeric one; on any other line it asks again
Asked == {<<>>, <<"1">>, <<"0">>, <<"-", "1">>}
promptForParam(temp, defaultVal) ==
    IF Len(temp) = 0 THEN defaultVal ELSE atof(temp)

\* lines 197-198: the prompt for the cosmology, answered by lines that
\* getCosmologyFromUser accepts
PromptCosmology ==
    /\ mpc = "made"
    /\ IF bflags[kPrompt]
       THEN \E lh \in Asked, lm \in Asked, ll \in Asked :
               LET h == promptForParam(lh, cosmo.H0)
                   om == promptForParam(lm, cosmo.OmegaM)
                   ol == promptForParam(ll, cosmo.OmegaL)
               IN  /\ Greater(h, Zero)
                   /\ ~Less(om, Zero)
                   /\ cosmo' = getCosmologyFromUser(h, om, ol)
                   /\ lastOp' = Op("getCosmologyFromUser", cosmo.z)
       ELSE UNCHANGED cosmoVars
    /\ mpc' = "mode"
    /\ UNCHANGED <<fz, batch, src, out, line, status, argsVars>>

\* the object a program starts with: Cosmo()
CosmoStart ==
    /\ cosmo = init(Dec(6704, 100), Dec(3183, 10000), Dec(6817, 10000))
    /\ lastOp = Op("Cosmo", Zero)

\* ------------------------------------------------------------------------
\* Specifications
\* ------------------------------------------------------------------------
\* a Cosmo object under any sequence of its public operations
Init == CosmoStart /\ RombergIdle /\ CosmicIdle /\ ArgsIdle /\ EvalIdle

Next ==
    \/ DefaultConstruct /\ UNCHANGED <<rombergVars, cosmicVars, argsVars, evalVars>>
    \/ Construct /\ UNCHANGED <<rombergVars, cosmicVars, argsVars, evalVars>>
    \/ CopyConstruct /\ UNCHANGED <<rombergVars, cosmicVars, argsVars, evalVars>>
    \/ Assign /\ UNCHANGED <<rombergVars, cosmicVars, argsVars, evalVars>>
    \/ SelfAssign /\ UNCHANGED <<rombergVars, cosmicVars, argsVars, evalVars>>
    \/ SetCosmology /\ UNCHANGED <<rombergVars, cosmicVars, argsVars, evalVars>>
    \/ SetRedshift /\ UNCHANGED <<rombergVars, cosmicVars, argsVars, evalVars>>
    \/ GetCosmologyFromUser /\ UNCHANGED <<rombergVars, cosmicVars, argsVars, evalVars>>

Spec == Init /\ [][Next]_vars

\* calls of Cosmo::romberg on any integrand and interval a <= b
RombergInit == CosmoStart /\ RombergIdle /\ CosmicIdle /\ ArgsIdle /\ EvalIdle

RombergNext ==
    \/ RombergCall /\ UNCHANGED <<cosmoVars, cosmicVars, argsVars, evalVars>>
    \/ RombergRow /\ UNCHANGED <<cosmoVars, cosmicVars, argsVars, evalVars>>
    \/ RombergExhausted /\ UNCHANGED <<cosmoVars, cosmicVars, argsVars, evalVars>>
    \/ RombergReturn /\ UNCHANGED <<cosmoVars, cosmicVars, argsVars, evalVars>>

RombergSpec == RombergInit /\ [][RombergNext]_vars


\* one run of the cosmic program on any command line and any input
CosmicInit == CosmoStart /\ RombergIdle /\ CosmicIdle /\ ArgsIdle /\ EvalIdle

CosmicNext ==
    \/ Startup /\ UNCHANGED <<rombergVars, argsVars, evalVars>>
    \/ QuickMode /\ UNCHANGED <<rombergVars, argsVars, evalVars>>
    \/ PromptLoop /\ UNCHANGED <<rombergVars, argsVars, evalVars>>
    \/ PromptEnd /\ UNCHANGED <<rombergVars, argsVars, evalVars>>
    \/ BatchOpen /\ UNCHANGED <<rombergVars, argsVars, evalVars>>
    \/ BatchLine /\ UNCHANGED <<rombergVars, argsVars, evalVars>>
    \/ BatchEnd /\ UNCHANGED <<rombergVars, argsVars, evalVars>>

CosmicSpec == CosmicInit /\ [][CosmicNext]_vars

\* the start of cosmic on any command line: the arguments, the cosmology
ArgsInit == CosmoStart /\ RombergIdle /\ CosmicIdle /\ ArgsIdle /\ EvalIdle

ArgsNext ==
    \/ ProcessArg /\ UNCHANGED <<rombergVars, evalVars>>
    \/ MakeCosmology /\ UNCHANGED <<rombergVars, evalVars>>
    \/ PromptCosmology /\ UNCHANGED <<rombergVars, evalVars>>

ArgsSpec == ArgsInit /\ [][ArgsNext]_vars

\* calls of Cosmo::romberg, followed one evaluation of the integrand at a time
EvalInit == CosmoStart /\ RombergIdle /\ CosmicIdle /\ ArgsIdle /\ EvalIdle

EvalNext ==
    \/ EvalCall /\ UNCHANGED <<cosmoVars, rombergVars, cosmicVars, argsVars>>
    \/ EvalRowStart /\ UNCHANGED <<cosmoVars, rombergVars, cosmicVars, argsVars>>
    \/ EvalPoint /\ UNCHANGED <<cosmoVars, rombergVars, cosmicVars, argsVars>>
    \/ EvalRowEnd /\ UNCHANGED <<cosmoVars, rombergVars, cosmicVars, argsVars>>
    \/ EvalStop /\ UNCHANGED <<cosmoVars, rombergVars, cosmicVars, argsVars>>
    \/ EvalReturn /\ UNCHANGED <<cosmoVars, rombergVars, cosmicVars, argsVars>>

EvalSpec == EvalInit /\ [][EvalNext]_vars

\* ------------------------------------------------------------------------
\* Properties of class Cosmo
\* ------------------------------------------------------------------------
\* the quantities that depend on the redshift
Derived(o) == <<o.dC, o.dM, o.dA, o.dL, o.VC, o.tL, o.scale, o.rhoCrit>>
AllZero(o) ==
    /\ o.dC = Zero /\ o.dM = Zero /\ o.dA = Zero /\ o.dL = Zero
    /\ o.VC = Zero /\ o.tL = Zero /\ o.scale = Zero
\* 3/(8*pi) * (H0/kmPerMpc)^2 / G * (OmegaL + OmegaM)
RhoCritAtZero(o) ==
    Mul(Div(Mul(Div(Dec(3, 8), PI), SQR(Div(o.H0, kmPerMpc))), G),
        Add(o.OmegaL, o.OmegaM))
\* a term that is a product or quotient of positive finite quantities
RECURSIVE PositiveBase(_)
PositiveBase(b) ==
    IF b = <<>> THEN TRUE
    ELSE IF b[1] \in {"*", "/"}
    THEN PositiveBase(b[2][1]) /\ PositiveBase(b[2][2])
    ELSE IF b[1] \in {"PI", "G", "c", "kmPerMpc"} THEN TRUE
    ELSE IF b[1] = "SQR"
    THEN Sign(b[2][1]) # 0 /\ PositiveBase(b[2][1].base)
    ELSE FALSE
FinitePositive(x) == Sign(x) > 0 /\ PositiveBase(x.base)
\* which of the three branches of lines 172-190 produced dM (for z # 0)
BranchOf(o) == o.dM.base[2][2][1]

\* C1: after setRedshift(z), z # 0, a following setCosmology(h, om, ol) keeps
\* z() = z and leaves the derived quantities equal to those setRedshift(z)
\* yields on an object constructed with (h, om, ol).
C1_SetCosmologyRecomputes ==
    (lastOp.name = "setCosmology" /\ Sign(lastOp.zBefore) # 0) =>
        /\ cosmo.z = lastOp.zBefore
        /\ Derived(cosmo) =
           Derived(setRedshift(init(cosmo.H0, cosmo.OmegaM, cosmo.OmegaL),
                               lastOp.zBefore))

\* C2: in every reachable state with z() = 0 every distance, the lookback
\* time and the scale are 0 and rhoCrit is the critical density at z = 0 for
\* the current parameters.
C2_ZeroRedshiftState ==
    (Sign(cosmo.z) = 0) =>
        /\ AllZero(cosmo)
        /\ cosmo.rhoCrit = RhoCritAtZero(cosmo)

\* C3: for all valid parameters (H0 > 0, OmegaM >= 0, OmegaL any real)
\* setRedshift(0) yields zero distances and a finite, strictly positive
\* rhoCrit.
C3_SetRedshiftZero ==
    (/\ lastOp.name = "setRedshift"
     /\ Sign(cosmo.z) = 0
     /\ Greater(cosmo.H0, Zero)
     /\ ~Less(cosmo.OmegaM, Zero)) =>
        /\ AllZero(cosmo)
        /\ FinitePositive(cosmo.rhoCrit)

\* C6: in every reachable state Omegak is 1 - OmegaM - OmegaL, or exactly 0
\* when that difference is at most machine epsilon in absolute value.
C6_OmegakFromFriedmann ==
    LET d == Sub(Sub(One, cosmo.OmegaM), cosmo.OmegaL)
    IN  /\ LessEq(fabs(d), Epsilon) => cosmo.Omegak = Zero
        /\ Greater(fabs(d), Epsilon) => cosmo.Omegak = d
C6_Witness ==
    /\ lastOp.name = "setCosmology"
    /\ cosmo.Omegak = Zero
    /\ Sub(Sub(One, cosmo.OmegaM), cosmo.OmegaL) # Zero

\* C7: after setRedshift(z) the derived quantities are those of
\* setRedshift(z) on a freshly constructed object with the same parameters,
\* whatever redshifts were set before, and repeating setRedshift(z) changes
\* nothing.
C7_RedshiftFromScratch ==
    (lastOp.name = "setRedshift") =>
        /\ Derived(cosmo) =
           Derived(setRedshift(init(cosmo.H0, cosmo.OmegaM, cosmo.OmegaL),
                               cosmo.z))
        /\ setRedshift(cosmo, cosmo.z) = cosmo
C7_Witness ==
    /\ lastOp.name = "setRedshift"
    /\ Sign(lastOp.zBefore) # 0
    /\ Sign(cosmo.z) = 0

\* C8: in every reachable state dA = dM / (1 + z) and dL = dM * (1 + z), and
\* so dL = dA * (1 + z)^2.
C8_DistanceDuality ==
    /\ cosmo.dA = Div(cosmo.dM, Add(One, cosmo.z))
    /\ cosmo.dL = Mul(cosmo.dM, Add(One, cosmo.z))
    /\ cosmo.dL = Mul(cosmo.dA, SQR(Add(One, cosmo.z)))
C8_Witness ==
    /\ lastOp.name = "setRedshift"
    /\ Sign(cosmo.z) # 0
    /\ Sign(cosmo.dM) # 0
    /\ cosmo.dL # cosmo.dA

\* C9: with Omegak exactly 0, setRedshift(z), z > 0, leaves dM = dC and
\* VC = 4/3 * pi * dC^3 / 1e9; the hyperbolic branch is taken only for
\* Omegak > 0 and the trigonometric branch only for Omegak < 0.
C9_FlatBranch ==
    Greater(cosmo.z, Zero) =>
        /\ (cosmo.Omegak = Zero) =>
              /\ cosmo.dM = cosmo.dC
              /\ cosmo.VC = Div(Mul(Mul(Dec(4, 3), PI), CUBE(cosmo.dC)),
                                Fn("1e9", <<>>))
        /\ (BranchOf(cosmo) = "sinh") => Greater(cosmo.Omegak, Zero)
        /\ (BranchOf(cosmo) = "sin") => Less(cosmo.Omegak, Zero)
C9_Witness ==
    /\ lastOp.name = "setRedshift"
    /\ Greater(cosmo.z, Zero)
    /\ cosmo.Omegak = Zero
    /\ Sub(Sub(One, cosmo.OmegaM), cosmo.OmegaL) # Zero
    /\ cosmo.dM = cosmo.dC

\* ------------------------------------------------------------------------
\* Properties of Cosmo::romberg
\* ------------------------------------------------------------------------
\* the most extrapolated entry of row i: R(i, i), stored at N*i + i - 1
\* (row 0 holds R(1, 1) alone)
Diagonal(i) == IF i = 0 THEN 0 ELSE N * i + i - 1

\* C4: when the rows are exhausted without convergence romberg returns the
\* most extrapolated entry of the last row it filled in, a cell that was
\* computed.
C4_ExhaustedReturnsBestEstimate ==
    (rpc = "done" /\ rret.how = "exhausted") =>
        /\ rret.cell \in written
        /\ rret.cell = Diagonal(N - 1)
        /\ rret.value = R[Diagonal(N - 1)]

\* C5: romberg returns at refinement row i >= 1 only if the most
\* extrapolated values of rows i and i - 1 differ by less than 1e-8 in
\* absolute value, and it returns the most extrapolated value of row i.
C5_ReturnsOnlyWhenRowsAgree ==
    (rpc = "done" /\ rret.how = "converged") =>
        /\ rWithin(rSub(R[Diagonal(rret.row)], R[Diagonal(rret.row - 1)]))
        /\ rret.value = R[Diagonal(rret.row)]

\* ------------------------------------------------------------------------
\* Properties of cosmic
\* ------------------------------------------------------------------------
\* C10: in every mode each value passed to Cosmo::setRedshift comes from a
\* text that is a number and is >= 0.
C10_CoreReceivesValidRedshift ==
    (lastOp.name = "setRedshift") =>
        /\ isNumeric(src.text) # 0
        /\ ~Less(cosmo.z, Zero)

\* C11: the cosmology cosmic makes from its flags has H0 > 0 and
\* OmegaM >= 0, whatever the command line.
C11_CallersValidateParameters ==
    (made # <<>>) =>
        /\ Greater(made[1], Zero)
        /\ ~Less(made[2], Zero)

\* C12: started without the options h, m and l, cosmic makes the cosmology
\* H0 = 67.04, OmegaM = 0.3183, OmegaL = 0.6817 of Cosmo().
C12_DocumentedDefaults ==
    (made # <<>> /\ given \cap {kH, kM, kL} = {}) =>
        made = <<Dec(6704, 100), Dec(3183, 10000), Dec(6817, 10000)>>

\* a signed decimal number: digits with at most one point, at most one
\* minus sign, in front, and at least one digit
IsSignedDecimal(text) ==
    /\ \A k \in 1 .. Len(text) : text[k] \in Digits \cup {"-", "."}
    /\ \A k \in 2 .. Len(text) : text[k] # "-"
    /\ Cardinality({k \in 1 .. Len(text) : text[k] = "."}) <= 1
    /\ \E k \in 1 .. Len(text) : text[k] \in Digits

\* C13: a batch run does not end in an error on a line that holds a
\* numeric redshift >= 0.
C13_BatchRowPerLine ==
    (mpc = "exit" /\ status = 1 /\ out = "not a number") =>
        ~(IsSignedDecimal(line) /\ ~Less(atof(line), Zero))

\* C14: isNumeric accepts exactly the signed decimal numbers: every text the
\* prompt loop has let through isNumeric is one.
C14_IsNumericSignedDecimal ==
    (src.mode = "prompt") => IsSignedDecimal(src.text)

\* the tables after processArgs has handled one more argument
After(text) ==
    LET kv == splitArg(text)
    IN  [how |-> kv.how, tables |-> processArg(Tables, kv.key, kv.value)]

\* C15: for every boolean option b, -b leaves the tables as b=yes does and
\* -nob as b=no does, and neither is counted as a bad argument.
C15_DashFormsOfBooleanOptions ==
    \A b \in BoolKeys :
        /\ After(<<"-">> \o b) = After(b \o <<"=", "y", "e", "s">>)
        /\ After(<<"-", "n", "o">> \o b) = After(b \o <<"=", "n", "o">>)
        /\ After(<<"-">> \o b).tables.badArgs = badArgs
        /\ After(<<"-", "n", "o">> \o b).tables.badArgs = badArgs
        /\ After(<<"-">> \o b).tables.bflags[b]
        /\ ~After(<<"-", "n", "o">> \o b).tables.bflags[b]

\* -noprompt has switched the prompt off, -quiet has switched quiet on
C15_Witness ==
    /\ last = <<"-", "n", "o">> \o kPrompt
    /\ ~bflags[kPrompt]
    /\ bflags[kQuiet]
    /\ badArgs = 0

\* C16: on a linear integrand romberg returns (b - a) * (f(a) + f(b)) / 2,
\* which is 0.5 for f(x) = x over [0, 1].
C16_LinearIntegrandExact ==
    (rpc = "done" /\ rin.f \in LinearIntegrands) =>
        /\ rret.how = "converged"
        /\ rret.value = rScale(rAdd(rin.f.fa, rin.f.fb), rin.b - rin.a, 2)

\* f(x) = x over [0, 1] has returned 0.5
C16_Witness ==
    /\ rpc = "done"
    /\ rin.f.fa = RV(0) /\ rin.f.fb = RV(Unit) /\ rin.a = 0 /\ rin.b = 1
    /\ rin.f \in LinearIntegrands
    /\ rret.value = RV(Unit \div 2)

\* the row that the n-th evaluation after a and b belongs to
RECURSIVE rowOf(_, _)
rowOf(n, i) == IF n < Pow(2, i) THEN i ELSE rowOf(n, i + 1)
\* the n-th point after a and b: odd k over 2^i, ascending, row after row
PointAt(n) ==
    LET i == rowOf(n, 1)
    IN  <<2 * (n - Pow(2, i - 1)) + 1, Pow(2, i)>>

\* C17: func is evaluated at a, at b, then row by row at
\* a + k*(b-a)/2^i for the odd k in ascending order, 2^(i-1) points in row
\* i, and at no point twice.
C17_EvaluationPoints ==
    (epc # "idle") =>
        /\ evals[1] = <<0, 1>>
        /\ evals[2] = <<1, 1>>
        /\ \A n \in 1 .. Len(evals) - 2 : evals[n + 2] = PointAt(n)
        /\ (epc = "row") => Len(evals) = 1 + Pow(2, ei - 1)
        /\ \A p, q \in 1 .. Len(evals) :
              p < q =>
                 (ein.b - ein.a) * (evals[p][1] * evals[q][2]
                                      - evals[q][1] * evals[p][2]) # 0

\* three rows have been evaluated
C17_Witness ==
    /\ epc = "done"
    /\ ei >= 3
    /\ Len(evals) >= 9

\* C18: every call of romberg returns after at most N rows: while the call
\* runs, i is in 1 .. N, where either the loop body (i < N) or the return
\* after the loop (i = N) is the next step; every iteration that does not
\* return moves on to the next row; and no row beyond the N-th is filled (the
\* first row and N - 1 refinements, so at most 2^(N-1) panels).
C18_RombergTerminates ==
    /\ []((rpc = "row") => (1 <= ri /\ ri <= N))
    /\ [](rnp <= Pow(2, N - 1))
    /\ [][(rpc = "row" /\ rpc' = "row") => ri' = ri + 1]_vars
    /\ [][(rpc = "row") => (rpc' \in {"row", "done"})]_vars

\* a call whose rows never met the tolerance has returned
C18_Witness ==
    /\ rpc = "done"
    /\ rret.how = "exhausted"
    /\ ri = N

\* ------------------------------------------------------------------------
\* Further properties of class Cosmo
\* ------------------------------------------------------------------------
\* the quantities that the parameters alone determine
Parameters(o) == <<o.H0, o.OmegaM, o.OmegaL, o.Omegak, o.q0, o.dH, o.age>>

\* C19: setRedshift leaves H0, OmegaM, OmegaL, Omegak, q0, dH and age as
\* they were.
C19_SetRedshiftKeepsParameters ==
    [][(lastOp'.name = "setRedshift") => Parameters(cosmo') = Parameters(cosmo)]_vars

\* setRedshift has changed the redshift of an object to a nonzero value
C19_Witness ==
    /\ lastOp.name = "setRedshift"
    /\ Sign(cosmo.z) # 0
    /\ lastOp.zBefore # cosmo.z

\* what the accessors z, dL, dA, dC, dM, VC, scale, rhoCrit, lookback and age
\* return
Observed(o) ==
    <<o.z, o.dL, o.dA, o.dC, o.dM, o.VC, o.scale, o.rhoCrit, o.tL, o.age>>

\* C20: a copy and an assignment give an object on which every accessor
\* returns what it returns on the source, and self-assignment changes nothing.
C20_CopyEqualsSource ==
    [][(lastOp'.name \in {"copy", "assign", "selfAssign"})
          => Observed(cosmo') = Observed(cosmo)]_vars

\* ------------------------------------------------------------------------
\* Further properties of romberg
\* ------------------------------------------------------------------------
\* C21: every index at which romberg reads or assigns R is one of the N*N
\* elements of the vector.
C21_TableIndicesInRange ==
    accessed \subseteq 0 .. N * N - 1

\* a call has run through all its rows: the last row's entries and the last
\* element of the vector have been accessed
C21_Witness ==
    /\ rpc = "done"
    /\ N * (N - 1) + (N - 2) \in accessed
    /\ backIndex \in accessed
    /\ 0 \in accessed

========================================================================
